---- MODULE Spec2Model ----
(***************************************************************************)
(* Model of Aggregator.generate_dataset (src/src/Aggregator.py) and of    *)
(* the helpers it calls.                                                   *)
(*                                                                         *)
(* Units.  Latitudes and longitudes read from a header are fixed-point     *)
(* numbers with three decimals; the model holds them as integers in        *)
(* thousandths of a degree.  The Decimal values computed in crop_map are   *)
(* multiples of 0.25; the model holds them as integers in quarters of a    *)
(* degree.  A date string YYYYMMDD is held as the integer YYYYMMDD.        *)
(*                                                                         *)
(* A line of an Argo file is a record with a field kind: a header line     *)
(* carries the four header fields, a data line the three values.           *)
(*                                                                         *)
(* Every entry of an output list carries, besides the value the code       *)
(* stores, a field src = <<file number, block number>> naming the profile  *)
(* block it was built from (a history field, read only by the properties). *)
(***************************************************************************)
EXTENDS Integers, Sequences, FiniteSets, TLC

VARIABLES hparams, ssh_files, sst_files, argo_files,
          file_idx, lines, pc,
          argo_info, pre_profiles, sal_profiles, tem_profiles, maps

vars == <<hparams, ssh_files, sst_files, argo_files, file_idx, lines, pc,
          argo_info, pre_profiles, sal_profiles, tem_profiles, maps>>

outputs == <<argo_info, pre_profiles, sal_profiles, tem_profiles, maps>>

inputs == <<hparams, ssh_files, sst_files, argo_files>>

(***************************************************************************)
(* Bounds of the model.                                                    *)
(***************************************************************************)
MaxFiles == 2

MaxBlocks == 2

(***************************************************************************)
(* Grid of the SSH/SST product (comment of change_axis_to_index).          *)
(***************************************************************************)
LatCells == 692

LonCells == 1440

LatOrigin == 83

(***************************************************************************)
(* Python primitives.                                                      *)
(***************************************************************************)
Last(s) == s[Len(s)]

Front(s) == SubSeq(s, 1, Len(s) - 1)

\* list.reverse()
Reverse(s) == [i \in 1..Len(s) |-> s[Len(s) + 1 - i]]

\* list.insert(0, x) in place of list.append(x)
ListAppend_prepend(list, x) == <<x>> \o list

\* list.append(x)
ListAppend(list, x) == Append(list, x)

\* pops guarded by "if lines": the end of the input is passed in silence
PopN_guarded(ls, k) ==
    IF Len(ls) >= k
    THEN [ok |-> TRUE, rest |-> SubSeq(ls, 1, Len(ls) - k),
          got |-> [i \in 1..k |-> ls[Len(ls) + 1 - i]]]
    ELSE [ok |-> TRUE, rest |-> <<>>,
          got |-> [i \in 1..Len(ls) |-> ls[Len(ls) + 1 - i]]]

\* k successive list.pop() calls: ok is FALSE when one of them raises
\* IndexError (pop from empty list); got holds the popped lines in pop order.
PopN(ls, k) ==
    IF Len(ls) >= k
    THEN [ok |-> TRUE, rest |-> SubSeq(ls, 1, Len(ls) - k),
          got |-> [i \in 1..k |-> ls[Len(ls) + 1 - i]]]
    ELSE [ok |-> FALSE, rest |-> <<>>,
          got |-> [i \in 1..Len(ls) |-> ls[Len(ls) + 1 - i]]]

\* list(range(start, stop, step)) for step > 0
PyRange(start, stop, step) ==
    LET n == IF stop > start THEN (stop - start + step - 1) \div step ELSE 0
    IN  [i \in 1..n |-> start + (i - 1) * step]

\* length of seq[a:b] for a sequence of n elements (slice.indices)
SliceLen(a, b, n) ==
    LET clip(v) == IF v < 0 THEN (IF v + n < 0 THEN 0 ELSE v + n)
                   ELSE (IF v > n THEN n ELSE v)
        lo == clip(a)
        hi == clip(b)
    IN  IF hi > lo THEN hi - lo ELSE 0

\* integer part of num / den (truncation toward zero), den > 0
Ipart(num, den) == IF num >= 0 THEN num \div den ELSE -((-num) \div den)

(***************************************************************************)
(* Dates.                                                                  *)
(***************************************************************************)
\* pd.to_datetime('YYYYMMDD'), and the slices current_date[:4], [4:6], [6:]
ToDatetime(d) == <<d \div 10000, (d \div 100) % 100, d % 100>>

\* comparison of two timestamps at midnight
DateLeq(a, b) ==
    \/ a[1] < b[1]
    \/ a[1] = b[1] /\ a[2] < b[2]
    \/ a[1] = b[1] /\ a[2] = b[2] /\ a[3] <= b[3]

\* jdcal.gcal2jd: the two parts of the Julian date, doubled so that the
\* halves are integers
Gcal2jd(year, month, day) ==
    LET a  == Ipart(month - 14, 12)
        j1 == Ipart(1461 * (year + 4800 + a), 4)
        j2 == Ipart(367 * (month - 2 - 12 * a), 12)
        x  == Ipart(year + 4900 + a, 100)
        j3 == Ipart(3 * x, 4)
    IN  <<4800001, 2 * (j1 + j2 - j3 + day) - 4864151 - 1>>

\* abs() of the difference of the two Julian dates
calc_days_elapsed_abs(current_date, ref_date) ==
    LET cur     == ToDatetime(current_date)
        g1      == Gcal2jd(cur[1], cur[2], cur[3])
        g2      == Gcal2jd(ref_date[1], ref_date[2], ref_date[3])
        d       == (g1[1] + g1[2]) - (g2[1] + g2[2])
    IN  IF d >= 0 THEN Ipart(d, 2) ELSE Ipart(-d, 2)

calc_days_elapsed(current_date, ref_date) ==
    LET cur     == ToDatetime(current_date)
        g1      == Gcal2jd(cur[1], cur[2], cur[3])
        g2      == Gcal2jd(ref_date[1], ref_date[2], ref_date[3])
        argo_jd == g1[1] + g1[2]
        ref_jd  == g2[1] + g2[2]
    IN  Ipart(argo_jd - ref_jd, 2)

(***************************************************************************)
(* Filters.                                                                *)
(***************************************************************************)
parse_argo_header(header) ==
    [argo_date |-> header.date, argo_lat |-> header.lat,
     argo_lon |-> header.lon, n_layer |-> header.n_layer]

\* strict comparisons in place of the inclusive ones
check_lat_and_lon_strict(hp, argo_lat, argo_lon) ==
    /\ hp.lat_min < argo_lat /\ argo_lat < hp.lat_max
    /\ hp.lon_min < argo_lon /\ argo_lon < hp.lon_max

check_lat_and_lon(hp, argo_lat, argo_lon) ==
    /\ hp.lat_min <= argo_lat /\ argo_lat <= hp.lat_max
    /\ hp.lon_min <= argo_lon /\ argo_lon <= hp.lon_max

\* the last day of the period left out
check_period_open(current_date, date_min, date_max) ==
    /\ DateLeq(ToDatetime(date_min), ToDatetime(current_date))
    /\ ToDatetime(current_date) # ToDatetime(date_max)
    /\ DateLeq(ToDatetime(current_date), ToDatetime(date_max))

check_period(current_date, date_min, date_max) ==
    /\ DateLeq(ToDatetime(date_min), ToDatetime(current_date))
    /\ DateLeq(ToDatetime(current_date), ToDatetime(date_max))

NoFile == [dm |-> 0, name |-> "False"]

\* the first file of the listing whose name contains 'dm' + argo_date
check_file_existance(argo_date, files) ==
    LET hits == {i \in 1..Len(files) : files[i].dm = argo_date}
    IN  IF hits = {} THEN NoFile
        ELSE files[CHOOSE i \in hits : \A j \in hits : i <= j]

(***************************************************************************)
(* Cropping.                                                               *)
(***************************************************************************)
\* ties rounded toward plus infinity (floor(4 v + 0.5)) on both sides of zero
round_to_grid_floor(v) == (4 * v + 500) \div 1000

\* Decimal(str(v * 4)).quantize(Decimal('0'), ROUND_HALF_UP) / 4, from
\* thousandths of a degree to quarters of a degree
round_to_grid(v) ==
    LET m == 4 * v
    IN  IF m >= 0 THEN (m + 500) \div 1000 ELSE -((-m + 500) \div 1000)

change_axis_to_index(argo_axis, width, data_type) ==
    IF data_type = "latitude"
    THEN [min_idx |-> (argo_axis - 2 * width) + LatOrigin * 4,
          max_idx |-> (argo_axis + 2 * width) + LatOrigin * 4]
    ELSE [min_idx |-> argo_axis - 2 * width,
          max_idx |-> argo_axis + 2 * width]

\* the patch read from the grid file: the variable, the index window asked
\* for and the shape of the array the slicing returns
crop_map(hp, argo_lat, argo_lon, map_file, data_type) ==
    LET lat == round_to_grid(argo_lat)
        lon == round_to_grid(argo_lon)
        la  == change_axis_to_index(lat, hp.meridional, "latitude")
        lo  == change_axis_to_index(lon, hp.zonal, "longitude")
    IN  [file |-> map_file,
         var  |-> IF data_type = "sst" THEN "thetao" ELSE "zos",
         lat_min_idx |-> la.min_idx, lat_max_idx |-> la.max_idx,
         lon_min_idx |-> lo.min_idx, lon_max_idx |-> lo.max_idx,
         rows |-> SliceLen(la.min_idx, la.max_idx + 1, LatCells),
         cols |-> SliceLen(lo.min_idx, lo.max_idx + 1, LonCells)]

(***************************************************************************)
(* Interpolation.                                                          *)
(***************************************************************************)
\* the Akima interpolant through (pre_profile, obj_profile), evaluated at the
\* points of the range: one value per point
interpolate_by_akima(pre_profile, obj_profile, min_pressure, max_pressure, interval) ==
    [x |-> pre_profile, y |-> obj_profile,
     at |-> PyRange(min_pressure, max_pressure + interval, interval)]

\* the separator line forgotten on the skip path
SkipCount_short(n_layer) == n_layer + 1

\* number of lines popped on the skip path
SkipCount(n_layer) == n_layer + 2

\* maps.extend([cropped_ssh, cropped_sst]): one entry per patch
StoreMaps_extend(list, cropped_ssh, cropped_sst, src) ==
    ListAppend(ListAppend(list, [ssh |-> cropped_ssh, sst |-> cropped_ssh, src |-> src]),
               [ssh |-> cropped_sst, sst |-> cropped_sst, src |-> src])

\* maps.append([cropped_ssh, cropped_sst])
StoreMaps(list, cropped_ssh, cropped_sst, src) ==
    ListAppend(list, [ssh |-> cropped_ssh, sst |-> cropped_sst, src |-> src])

(***************************************************************************)
(* Inputs: the configuration, the listings of the SSH and SST directories  *)
(* and the Argo files.                                                     *)
(***************************************************************************)
\* A: a regional selection box and one month; B: the whole grid and a long
\* period, a pressure interval that does not divide the pressure span
ConfigA ==
    [lat_min |-> 30000, lat_max |-> 40000, lon_min |-> 130000, lon_max |-> 150000,
     date_min |-> 20100101, date_max |-> 20100131, reference_date |-> <<2000, 1, 1>>,
     min_pressure |-> 10, max_pressure |-> 30, pressure_interval |-> 10,
     zonal |-> 2, meridional |-> 1]

ConfigB ==
    [lat_min |-> -83000, lat_max |-> 89750, lon_min |-> 0, lon_max |-> 359875,
     date_min |-> 19990101, date_max |-> 20101231, reference_date |-> <<2000, 2, 29>>,
     min_pressure |-> 0, max_pressure |-> 10, pressure_interval |-> 3,
     zonal |-> 1, meridional |-> 2]

\* date, latitude, longitude of the profiles the files may hold under
\* ConfigA: inside the box, on its edges, just outside it in latitude and in
\* longitude
ProfilesRegion ==
    { <<20100101, 35500, 140250>>,
      <<20100131, 40000, 130000>>,
      <<20100115, 40001, 140250>>,
      <<20100115, 35125, 150001>> }

\* under ConfigA: on the first day of the period, after its last day, with no
\* SSH file and with no SST file
ProfilesPeriod ==
    { <<20100101, 35500, 140250>>,
      <<20100201, 35500, 140250>>,
      <<20100110, 35500, 140250>>,
      <<20100120, 35625, 140375>> }

\* under ConfigB: halfway between two grid lines, near the edges of the grid,
\* around the reference date, and one with no SSH file
ProfilesB ==
    { <<20000229, -125, 250>>,
      <<19991231, 125, 180125>>,
      <<20000301, 89750, 359875>>,
      <<20100110, 35500, 140250>> }

Profiles == ProfilesRegion \cup ProfilesPeriod \cup ProfilesB

\* layer counts the headers may announce (the interpolant of lines 150-152 is
\* built through at least two points)
LayerCounts == {2, 3}

Cases ==
    { [hp |-> ConfigA, profiles |-> ProfilesRegion, layers |-> LayerCounts],
      [hp |-> ConfigA, profiles |-> ProfilesPeriod, layers |-> LayerCounts],
      [hp |-> ConfigB, profiles |-> ProfilesB, layers |-> LayerCounts] }

ProfileDates == {p[1] : p \in Profiles}

\* there is no SSH file for 20100110 and no SST file for 20100120
SetToSeq(S) ==
    LET RECURSIVE build(_)
        build(T) == IF T = {} THEN <<>>
                    ELSE LET d == CHOOSE e \in T : \A o \in T : e <= o
                         IN  <<d>> \o build(T \ {d})
    IN  build(S)

Listing(name, dates) ==
    LET ds == SetToSeq(dates)
    IN  [i \in 1..Len(ds) |-> [dm |-> ds[i], name |-> name]]

SshListing == Listing("ssh", ProfileDates \ {20100110})

SstListing == Listing("sst", ProfileDates \ {20100120})

HeaderLine(p, n) ==
    [kind |-> "header", date |-> p[1], lat |-> p[2], lon |-> p[3], n_layer |-> n]

LabelLine == [kind |-> "label"]

DataLine(k) == [kind |-> "data", pre |-> 10 * k, sal |-> 34000 + k, tem |-> 20000 - 100 * k]

SeparatorLine == [kind |-> "separator"]

\* the lines of a block after its header
BodyLines(n) == <<LabelLine>> \o [k \in 1..n |-> DataLine(k)] \o <<SeparatorLine>>

BlockLines(p, n) == <<HeaderLine(p, n)>> \o BodyLines(n)

\* files of exactly k well-formed blocks of profiles of P with layer counts
\* of L
RECURSIVE WellFormedFiles(_, _, _)
WellFormedFiles(P, L, k) ==
    IF k = 0 THEN {<<>>}
    ELSE {BlockLines(p, n) \o f :
            p \in P, n \in L, f \in WellFormedFiles(P, L, k - 1)}

\* files of k blocks that end inside the last one
TruncatedFiles(P, L, k) ==
    UNION {{f \o <<HeaderLine(p, n)>> \o SubSeq(BodyLines(n), 1, j) : j \in 0..(n + 1)} :
            f \in WellFormedFiles(P, L, k - 1), p \in P, n \in L}

\* listings of at most nf files of size at most nb in all, where the size of
\* a file is the number of its blocks and an empty file has size 1; a file
\* that ends inside a block comes last (no file after it is ever opened)
RECURSIVE Directories(_, _, _, _)
Directories(P, L, nf, nb) ==
    IF nf = 0 \/ nb = 0 THEN {<<>>}
    ELSE {<<>>} \cup {<<<<>>>> \o d : d \in Directories(P, L, nf - 1, nb - 1)} \cup
         UNION {{<<f>> \o d : f \in WellFormedFiles(P, L, k),
                              d \in Directories(P, L, nf - 1, nb - k)}
                \cup {<<f>> : f \in TruncatedFiles(P, L, k)} :
                 k \in 1..nb}

(***************************************************************************)
(* State after lines 42-50 of generate_dataset.                            *)
(***************************************************************************)
InitWith(cases) ==
    /\ \E c \in cases :
          /\ hparams = c.hp
          /\ argo_files \in Directories(c.profiles, c.layers, MaxFiles, MaxBlocks)
    /\ ssh_files = SshListing
    /\ sst_files = SstListing
    /\ file_idx = 0
    /\ lines = <<>>
    /\ pc = "loop"
    /\ argo_info = <<>>
    /\ pre_profiles = <<>>
    /\ sal_profiles = <<>>
    /\ tem_profiles = <<>>
    /\ maps = <<>>

Init == InitWith(Cases)

\* the same state over fewer inputs: an accepted profile (on the edge of the
\* box, on the last day of the period) and one with no SST file
ProfilesFair ==
    { <<20100131, 40000, 130000>>,
      <<20100120, 35625, 140375>> }

FairInit == InitWith({[hp |-> ConfigA, profiles |-> ProfilesFair, layers |-> {2}]})

(***************************************************************************)
(* One iteration of the while loop, as a function of the state.            *)
(***************************************************************************)
CountHeaders(s) == Cardinality({i \in 1..Len(s) : s[i].kind = "header"})

\* number, in its file, of the block whose header is on top of lines
BlockNo == CountHeaders(argo_files[file_idx]) - CountHeaders(lines) + 1

\* the flags of lines 74-84
Selected(hp, h, sshs, ssts) ==
    /\ check_lat_and_lon(hp, h.argo_lat, h.argo_lon)
    /\ check_period(h.argo_date, hp.date_min, hp.date_max)
    /\ check_file_existance(h.argo_date, sshs) # NoFile
    /\ check_file_existance(h.argo_date, ssts) # NoFile

\* next file of the for loop (lines 53-61)
OpenFile ==
    /\ pc = "loop"
    /\ lines = <<>>
    /\ file_idx < Len(argo_files)
    /\ file_idx' = file_idx + 1
    /\ lines' = Reverse(argo_files[file_idx + 1])
    /\ UNCHANGED <<inputs, pc, outputs>>

\* lines 67-87, the profile is skipped
SkipProfile ==
    /\ pc = "loop"
    /\ lines # <<>>
    /\ Last(lines).kind = "header"
    /\ LET h == parse_argo_header(Last(lines))
           p == PopN(Front(lines), SkipCount(h.n_layer))
       IN  /\ ~Selected(hparams, h, ssh_files, sst_files)
           /\ p.ok
           /\ lines' = p.rest
    /\ UNCHANGED <<inputs, file_idx, pc, outputs>>

\* lines 67-86, a pop of the skip loop raises IndexError
SkipPastEnd ==
    /\ pc = "loop"
    /\ lines # <<>>
    /\ Last(lines).kind = "header"
    /\ LET h == parse_argo_header(Last(lines))
           p == PopN(Front(lines), SkipCount(h.n_layer))
       IN  /\ ~Selected(hparams, h, ssh_files, sst_files)
           /\ ~p.ok
           /\ lines' = p.rest
    /\ pc' = "error"
    /\ UNCHANGED <<inputs, file_idx, outputs>>

\* the record of lines 89-121 built from the header h and the data lines got
Record(hp, h, got, sshs, ssts, src) ==
    LET pre_profile == [i \in 1..Len(got) |-> got[i].pre]
        sal_profile == [i \in 1..Len(got) |-> got[i].sal]
        tem_profile == [i \in 1..Len(got) |-> got[i].tem]
        pre_min == hp.min_pressure
        pre_max == hp.max_pressure
        pre_interval == hp.pressure_interval
    IN  [info |-> [n_days_elapsed |-> calc_days_elapsed(h.argo_date, hp.reference_date),
                   argo_lat |-> h.argo_lat, argo_lon |-> h.argo_lon, src |-> src],
         pre  |-> [grid |-> PyRange(pre_min, pre_max + pre_interval, pre_interval), src |-> src],
         sal  |-> [val |-> interpolate_by_akima(pre_profile, sal_profile, pre_min, pre_max, pre_interval),
                   src |-> src],
         tem  |-> [val |-> interpolate_by_akima(pre_profile, tem_profile, pre_min, pre_max, pre_interval),
                   src |-> src],
         ssh  |-> crop_map(hp, h.argo_lat, h.argo_lon, check_file_existance(h.argo_date, sshs), "ssh"),
         sst  |-> crop_map(hp, h.argo_lat, h.argo_lon, check_file_existance(h.argo_date, ssts), "sst")]

\* lines 112-121
Store(r, src) ==
    /\ argo_info' = ListAppend(argo_info, r.info)
    /\ pre_profiles' = ListAppend(pre_profiles, r.pre)
    /\ sal_profiles' = ListAppend(sal_profiles, r.sal)
    /\ tem_profiles' = ListAppend(tem_profiles, r.tem)
    /\ maps' = StoreMaps(maps, r.ssh, r.sst, src)

\* lines 67-124, the profile is accepted
AcceptProfile ==
    /\ pc = "loop"
    /\ lines # <<>>
    /\ Last(lines).kind = "header"
    /\ LET h     == parse_argo_header(Last(lines))
           src   == <<file_idx, BlockNo>>
           label == PopN(Front(lines), 1)
           data  == PopN(label.rest, h.n_layer)
           sep   == PopN(data.rest, 1)
       IN  /\ Selected(hparams, h, ssh_files, sst_files)
           /\ label.ok /\ data.ok /\ sep.ok
           /\ \A i \in 1..Len(data.got) : data.got[i].kind = "data"
           /\ Store(Record(hparams, h, data.got, ssh_files, sst_files, src), src)
           /\ lines' = sep.rest
    /\ UNCHANGED <<inputs, file_idx, pc>>

\* lines 67-124, a pop of line 93, 98 or 124 raises IndexError; the pop of
\* line 124 comes after the appends
AcceptPastEnd ==
    /\ pc = "loop"
    /\ lines # <<>>
    /\ Last(lines).kind = "header"
    /\ LET h     == parse_argo_header(Last(lines))
           src   == <<file_idx, BlockNo>>
           label == PopN(Front(lines), 1)
           data  == PopN(label.rest, h.n_layer)
           sep   == PopN(data.rest, 1)
       IN  /\ Selected(hparams, h, ssh_files, sst_files)
           /\ ~(label.ok /\ data.ok /\ sep.ok)
           /\ \A i \in 1..Len(data.got) : data.got[i].kind = "data"
           /\ IF label.ok /\ data.ok
              THEN Store(Record(hparams, h, data.got, ssh_files, sst_files, src), src)
              ELSE UNCHANGED outputs
           /\ lines' = <<>>
    /\ pc' = "error"
    /\ UNCHANGED <<inputs, file_idx>>

\* line 126
Return ==
    /\ pc = "loop"
    /\ lines = <<>>
    /\ file_idx = Len(argo_files)
    /\ pc' = "returned"
    /\ UNCHANGED <<inputs, file_idx, lines, outputs>>

Next ==
    \/ OpenFile
    \/ SkipProfile
    \/ SkipPastEnd
    \/ AcceptProfile
    \/ AcceptPastEnd
    \/ Return

Spec == Init /\ [][Next]_vars

\* the interpreter runs the loop to its end
FairSpec == FairInit /\ [][Next]_vars /\ WF_vars(Next)

(***************************************************************************)
(* Vocabulary of the properties.                                           *)
(***************************************************************************)
\* the header lines of a file, in file order
FileBlocks(f) == SelectSeq(f, LAMBDA l : l.kind = "header")

\* the header of the block an output entry was built from
HeaderOf(src) == FileBlocks(argo_files[src[1]])[src[2]]

\* a file made of whole blocks: header, label, n_layer data lines, separator
RECURSIVE IsWellFormed(_)
IsWellFormed(f) ==
    IF f = <<>> THEN TRUE
    ELSE /\ f[1].kind = "header"
         /\ Len(f) >= f[1].n_layer + 3
         /\ f[2].kind = "label"
         /\ \A k \in 1..f[1].n_layer : f[2 + k].kind = "data"
         /\ f[f[1].n_layer + 3].kind = "separator"
         /\ IsWellFormed(SubSeq(f, f[1].n_layer + 4, Len(f)))

\* number of blocks of file fi whose processing is over
DoneCount(fi) ==
    IF fi < file_idx THEN Len(FileBlocks(argo_files[fi]))
    ELSE IF fi = file_idx THEN CountHeaders(argo_files[fi]) - CountHeaders(lines)
    ELSE 0

\* the four conditions of a record, on the header line h
InBox(h) ==
    /\ hparams.lat_min <= h.lat /\ h.lat <= hparams.lat_max
    /\ hparams.lon_min <= h.lon /\ h.lon <= hparams.lon_max

InPeriod(h) == hparams.date_min <= h.date /\ h.date <= hparams.date_max

HasSsh(h) == \E i \in 1..Len(ssh_files) : ssh_files[i].dm = h.date

HasSst(h) == \E i \in 1..Len(sst_files) : sst_files[i].dm = h.date

Qualifies(h) == InBox(h) /\ InPeriod(h) /\ HasSsh(h) /\ HasSst(h)

\* the entries of argo_info built from file fi
RecordsOf(fi) == {i \in 1..Len(argo_info) : argo_info[i].src[1] = fi}

Rejected(fi) ==
    LET b == FileBlocks(argo_files[fi])
    IN  {k \in 1..Len(b) : ~Qualifies(b[k])}

SrcLess(a, b) == a[1] < b[1] \/ (a[1] = b[1] /\ a[2] < b[2])

IsPrefix(s, t) == Len(s) <= Len(t) /\ s = SubSeq(t, 1, Len(s))

\* C1: an iteration of the while loop that starts on a header with layer
\* count n and does not abort removes that header and exactly the n + 2
\* lines after it (the last of them the separator), whether the block is
\* accepted or rejected, so that the next line read is the line after the
\* separator: the next header or the end of the file.
C1_LineConsumption ==
    [][ (pc = "loop" /\ lines # <<>> /\ pc' = "loop")
        => LET n == Last(lines).n_layer
           IN  /\ Len(lines) >= n + 3
               /\ lines' = SubSeq(lines, 1, Len(lines) - (n + 3))
               /\ lines[Len(lines) - (n + 2)].kind = "separator"
               /\ (lines' # <<>> => Last(lines').kind = "header") ]_vars

\* a rejected first block has been passed and the header of the second block
\* is the next line
C1_Witness ==
    /\ pc = "loop"
    /\ lines # <<>>
    /\ Last(lines).kind = "header"
    /\ DoneCount(file_idx) = 1
    /\ RecordsOf(file_idx) = {}

\* C2: every file made of N well-formed blocks, M of them rejected, is read
\* to its end: the run reaches the point where no line of the file is left,
\* and there exactly N - M records have been appended for the file.
C2_FileCount ==
    \A f \in 1..MaxFiles :
        (file_idx = 0 /\ f <= Len(argo_files) /\ \A g \in 1..f : IsWellFormed(argo_files[g]))
            ~> ( /\ file_idx = f
                 /\ lines = <<>>
                 /\ pc # "error"
                 /\ Cardinality(RecordsOf(f)) =
                      Len(FileBlocks(argo_files[f])) - Cardinality(Rejected(f)) )

\* a file of two blocks, one accepted and one rejected, read to its end
C2_Witness ==
    /\ file_idx >= 1
    /\ lines = <<>>
    /\ pc = "returned"
    /\ IsWellFormed(argo_files[file_idx])
    /\ Len(FileBlocks(argo_files[file_idx])) = 2
    /\ Cardinality(Rejected(file_idx)) = 1
    /\ Cardinality(RecordsOf(file_idx)) = 1

\* C3: a block whose processing is over has a record if and only if its
\* profile is inside the latitude/longitude box (edges included), inside the
\* period (first and last day included) and has an SSH file and an SST file
\* for its date.
C3_RecordIff ==
    pc # "error" =>
        \A fi \in 1..file_idx : \A b \in 1..DoneCount(fi) :
            (\E i \in 1..Len(argo_info) : argo_info[i].src = <<fi, b>>)
                <=> Qualifies(FileBlocks(argo_files[fi])[b])

\* a profile on an edge of the box and on the last day of the period has
\* been accepted, and a block has been rejected
C3_Witness ==
    /\ pc = "returned"
    /\ \E i \in 1..Len(argo_info) :
          /\ argo_info[i].argo_lat = hparams.lat_max
          /\ HeaderOf(argo_info[i].src).date = hparams.date_max
    /\ \E fi \in 1..file_idx : Rejected(fi) # {}

\* C4: the five output lists have the same length and their entries at the
\* same index were built from the same profile block.
C4_Aligned ==
    /\ Len(pre_profiles) = Len(argo_info)
    /\ Len(sal_profiles) = Len(argo_info)
    /\ Len(tem_profiles) = Len(argo_info)
    /\ Len(maps) = Len(argo_info)
    /\ \A i \in 1..Len(argo_info) :
          /\ pre_profiles[i].src = argo_info[i].src
          /\ sal_profiles[i].src = argo_info[i].src
          /\ tem_profiles[i].src = argo_info[i].src
          /\ maps[i].src = argo_info[i].src

\* two records stored, a rejected block between or around them
C4_Witness ==
    /\ Len(argo_info) = 2
    /\ Len(maps) = 2
    /\ argo_info[1].src # argo_info[2].src

\* C5: the SSH patch and the SST patch of every record have
\* 4 * meridional width + 1 rows and 4 * zonal width + 1 columns.
C5_PatchShape ==
    \A i \in 1..Len(maps) :
        /\ maps[i].ssh.rows = 4 * hparams.meridional + 1
        /\ maps[i].ssh.cols = 4 * hparams.zonal + 1
        /\ maps[i].sst.rows = 4 * hparams.meridional + 1
        /\ maps[i].sst.cols = 4 * hparams.zonal + 1

\* the grid line (in quarters of a degree) crop_map rounded the latitude and
\* the longitude of record i to, read back from the window it asked for
GridLat(i) == maps[i].ssh.lat_min_idx + 2 * hparams.meridional - 4 * LatOrigin

GridLon(i) == maps[i].ssh.lon_min_idx + 2 * hparams.zonal

\* x (thousandths of a degree) is in [n*0.25 - 0.125, n*0.25 + 0.125)
InHalfOpenCell(x, n) == 250 * n - 125 <= x /\ x < 250 * n + 125

\* x is nearer to n*0.25 than to any other grid line, or halfway between
\* n*0.25 and the grid line next to it on the side of zero
InCellAwayFromZero(x, n) ==
    \/ 250 * n - 125 < x /\ x < 250 * n + 125
    \/ x > 0 /\ x = 250 * n - 125
    \/ x < 0 /\ x = 250 * n + 125

\* C6 as stated: every x in [n*0.25 - 0.125, n*0.25 + 0.125) is rounded to
\* n*0.25, for negative n too.
C6_HalfOpenCells ==
    \A i \in 1..Len(maps) :
        /\ InHalfOpenCell(argo_info[i].argo_lat, GridLat(i))
        /\ InHalfOpenCell(argo_info[i].argo_lon, GridLon(i))

\* C6 amended: x is rounded to the nearest grid line, and a value halfway
\* between two grid lines to the one farther from zero.
C6_AwayFromZero ==
    \A i \in 1..Len(maps) :
        /\ InCellAwayFromZero(argo_info[i].argo_lat, GridLat(i))
        /\ InCellAwayFromZero(argo_info[i].argo_lon, GridLon(i))

\* a latitude of -0.125 has been rounded to -0.25 and a longitude of
\* 180.125 to 180.25
C6_Witness ==
    /\ \E i \in 1..Len(maps) : argo_info[i].argo_lat = -125 /\ GridLat(i) = -1
    /\ \E i \in 1..Len(maps) : argo_info[i].argo_lon = 180125 /\ GridLon(i) = 721

\* C7: the pressure grid of every record, and the grid salinity and
\* temperature are evaluated on, is min, min + interval, ..., max: it starts
\* at min_pressure, ends exactly at max_pressure and has
\* (max - min) / interval + 1 points.
C7_PressureGrid ==
    \A i \in 1..Len(pre_profiles) :
        LET g == pre_profiles[i].grid
        IN  /\ sal_profiles[i].val.at = g
            /\ tem_profiles[i].val.at = g
            /\ g # <<>>
            /\ g[1] = hparams.min_pressure
            /\ Last(g) = hparams.max_pressure
            /\ \A k \in 1..Len(g) : g[k] <= hparams.max_pressure
            /\ (Len(g) - 1) * hparams.pressure_interval =
                   hparams.max_pressure - hparams.min_pressure

\* C8: an entry once appended keeps its place and its value, and the entries
\* of every output list are in the order their blocks were read (file by
\* file, block by block).
C8_Order ==
    [][ /\ IsPrefix(argo_info, argo_info')
        /\ IsPrefix(pre_profiles, pre_profiles')
        /\ IsPrefix(sal_profiles, sal_profiles')
        /\ IsPrefix(tem_profiles, tem_profiles')
        /\ IsPrefix(maps, maps')
        /\ \A i, j \in 1..Len(argo_info') :
              i < j => /\ SrcLess(argo_info'[i].src, argo_info'[j].src)
                       /\ SrcLess(pre_profiles'[i].src, pre_profiles'[j].src)
                       /\ SrcLess(sal_profiles'[i].src, sal_profiles'[j].src)
                       /\ SrcLess(tem_profiles'[i].src, tem_profiles'[j].src)
                       /\ SrcLess(maps'[i].src, maps'[j].src) ]_vars

\* two records, from two different files
C8_Witness ==
    /\ Len(argo_info) = 2
    /\ argo_info[1].src[1] = 1
    /\ argo_info[2].src[1] = 2

\* the reference date as YYYYMMDD
RefDate ==
    hparams.reference_date[1] * 10000 + hparams.reference_date[2] * 100
        + hparams.reference_date[3]

\* C9: the elapsed days stored for a profile dated on the reference date are
\* 0, and of two records the one with the earlier date never has more
\* elapsed days.
C9_ElapsedDays ==
    /\ \A i \in 1..Len(argo_info) :
          HeaderOf(argo_info[i].src).date = RefDate => argo_info[i].n_days_elapsed = 0
    /\ \A i, j \in 1..Len(argo_info) :
          HeaderOf(argo_info[i].src).date <= HeaderOf(argo_info[j].src).date
              => argo_info[i].n_days_elapsed <= argo_info[j].n_days_elapsed

\* a record dated on the reference date and a record dated before it
C9_Witness ==
    /\ \E i \in 1..Len(argo_info) :
          HeaderOf(argo_info[i].src).date = RefDate /\ argo_info[i].n_days_elapsed = 0
    /\ \E j \in 1..Len(argo_info) :
          HeaderOf(argo_info[j].src).date < RefDate /\ argo_info[j].n_days_elapsed < 0

\* C10: a run over a file that ends inside a block does not return, and the
\* records of a run that returns were each built from as many data lines as
\* the header of their block announces.
C10_NoShortRecord ==
    pc = "returned" =>
        /\ \A f \in 1..Len(argo_files) : IsWellFormed(argo_files[f])
        /\ \A i \in 1..Len(argo_info) :
              /\ Len(sal_profiles[i].val.x) = HeaderOf(argo_info[i].src).n_layer
              /\ Len(sal_profiles[i].val.y) = HeaderOf(argo_info[i].src).n_layer
              /\ Len(tem_profiles[i].val.y) = HeaderOf(argo_info[i].src).n_layer

\* the run has aborted on a file that ends inside a block, after a record
\* was stored
C10_Witness ==
    /\ pc = "error"
    /\ \E f \in 1..Len(argo_files) : ~IsWellFormed(argo_files[f])
    /\ Len(argo_info) >= 1

====
